---- MODULE Spec2Model ----
(***************************************************************************)
(* A model of src/rbi-dashboard.py, the RBI macro dashboard: the           *)
(* linear_forecast helper, the Riskometer page, the CSV upload of the      *)
(* Liquidity page, the multi-upload / merge / correlation of the           *)
(* Correlation page, and the fetchers and report lines of the PDF page.    *)
(*                                                                         *)
(* Every run of the script renders one page from scratch, so each page is  *)
(* a specification of its own over its own variables.                      *)
(*                                                                         *)
(* Numbers.  A value is the record [k, n, d]: k = "num" is the number n/d  *)
(* in lowest terms, k = "nan" is pandas' NaN, k = "str" is a text cell     *)
(* that is no number.  The code computes in binary floating point; the     *)
(* model computes the exact rational the float approximates.               *)
(* Dates.  A date is <<year, month, day>>; NaT is pandas' missing date.    *)
(***************************************************************************)
EXTENDS Integers, Sequences, FiniteSets, TLC

VARIABLES
    \* linear_forecast, called on a caller's table
    fc_df, fc_periods, fc_freq, fc_out, fc_pc,
    \* Riskometer page
    eq, debt, gold, risk_score, risk_error, risk_label, risk_pc,
    \* Liquidity page, CSV upload column
    file, uploaded_df, proj, liq_msg, liq_pc,
    \* Correlation page
    uploaded, idx, dfs, merged, corr, corr_msgs, corr_pc,
    \* PDF Report page
    FRED_API_KEY, resp, us_df, fed_df, ind_df, usd_inr, lines, rep_pc

fcVars   == <<fc_df, fc_periods, fc_freq, fc_out, fc_pc>>
riskVars == <<eq, debt, gold, risk_score, risk_error, risk_label, risk_pc>>
liqVars  == <<file, uploaded_df, proj, liq_msg, liq_pc>>
corrVars == <<uploaded, idx, dfs, merged, corr, corr_msgs, corr_pc>>
repVars  == <<FRED_API_KEY, resp, us_df, fed_df, ind_df, usd_inr, lines, rep_pc>>
vars     == <<fcVars, riskVars, liqVars, corrVars, repVars>>

----------------------------------------------------------------------------
(* Bounds of the model *)

MaxLen == 3
MaxPeriods == 2
MaxRows == 3
MaxFiles == 3

----------------------------------------------------------------------------
(* Numbers *)

Abs(a) == IF a < 0 THEN -a ELSE a

RECURSIVE Gcd(_, _)
Gcd(a, b) == IF b = 0 THEN a ELSE Gcd(b, a % b)

\* the number n/d (d # 0) in lowest terms with a positive denominator
Rat(n, d) ==
    LET g == Gcd(Abs(n), Abs(d))
        s == IF d < 0 THEN -1 ELSE 1
    IN  [k |-> "num", n |-> (s * n) \div g, d |-> (s * d) \div g]

Num(n) == [k |-> "num", n |-> n, d |-> 1]
NaN == [k |-> "nan", n |-> 0, d |-> 1]
\* a text cell of an object column: the text of the number n, or text that
\* spells no number (d = 0)
StrNum(n) == [k |-> "str", n |-> n, d |-> 1]
StrJunk == [k |-> "str", n |-> 0, d |-> 0]

\* a + b and a * b, dividing common factors out before multiplying
RatAdd(a, b) ==
    LET g == Gcd(a.d, b.d)
    IN  Rat(a.n * (b.d \div g) + b.n * (a.d \div g), (a.d \div g) * b.d)
RatMul(a, b) ==
    LET g == Gcd(Abs(a.n), b.d)
        h == Gcd(Abs(b.n), a.d)
    IN  Rat((a.n \div g) * (b.n \div h), (a.d \div h) * (b.d \div g))

----------------------------------------------------------------------------
(* Dates: datetime.toordinal, pd.DateOffset(months=i), timedelta(days=k) *)

NaT == <<0, 0, 0>>

IsLeap(y) == (y % 4 = 0 /\ y % 100 # 0) \/ y % 400 = 0

DaysInMonth(y, m) ==
    IF m = 2 THEN (IF IsLeap(y) THEN 29 ELSE 28)
    ELSE IF m \in {4, 6, 9, 11} THEN 30 ELSE 31

IsDate(t) ==
    /\ t[1] >= 1
    /\ t[2] \in 1..12
    /\ t[3] >= 1
    /\ t[3] <= DaysInMonth(t[1], t[2])

DaysBeforeYear(y) ==
    (y - 1) * 365 + ((y - 1) \div 4) - ((y - 1) \div 100) + ((y - 1) \div 400)

RECURSIVE DaysBeforeMonth(_, _)
DaysBeforeMonth(y, m) ==
    IF m = 1 THEN 0 ELSE DaysBeforeMonth(y, m - 1) + DaysInMonth(y, m - 1)

\* d.toordinal(): the proleptic Gregorian day number, 0001-01-01 is day 1
toordinal(t) == DaysBeforeYear(t[1]) + DaysBeforeMonth(t[1], t[2]) + t[3]

RECURSIVE YearOf(_, _)
YearOf(n, y) == IF DaysBeforeYear(y + 1) < n THEN YearOf(n, y + 1) ELSE y

RECURSIVE MonthOf(_, _, _)
MonthOf(rest, y, m) ==
    IF rest > DaysInMonth(y, m)
    THEN MonthOf(rest - DaysInMonth(y, m), y, m + 1)
    ELSE <<y, m, rest>>

\* the date whose ordinal is n
fromordinal(n) ==
    LET y == YearOf(n, ((n - 1) \div 366) + 1)
    IN  MonthOf(n - DaysBeforeYear(y), y, 1)

\* last + pd.DateOffset(months=i): same day of the month, clipped to its end
DateOffsetMonths(t, i) ==
    LET total == t[1] * 12 + (t[2] - 1) + i
        y == total \div 12
        m == (total % 12) + 1
        dim == DaysInMonth(y, m)
    IN  <<y, m, IF t[3] > dim THEN dim ELSE t[3]>>

\* last + timedelta(days=k)
TimedeltaDays(t, k) == fromordinal(toordinal(t) + k)

DateLeq(a, b) == toordinal(a) <= toordinal(b)
DateLt(a, b) == toordinal(a) < toordinal(b)

----------------------------------------------------------------------------
(* Tables: a sequence of rows *)

RECURSIVE SumSeq(_)
SumSeq(s) == IF s = <<>> THEN 0 ELSE Head(s) + SumSeq(Tail(s))

\* put row r after every row of the date-sorted s whose date is <= r's
RECURSIVE InsertByDate(_, _)
InsertByDate(s, r) ==
    IF s = <<>> THEN <<r>>
    ELSE IF DateLeq(s[Len(s)].date, r.date) THEN Append(s, r)
    ELSE Append(InsertByDate(SubSeq(s, 1, Len(s) - 1), r), s[Len(s)])

\* a slip: the table is used in the order given
sort_valuesOmitted(df) == df

\* df.sort_values("date").reset_index(drop=True).  numpy sorts a table of
\* at most 16 rows by insertion, which keeps rows of equal date in order.
RECURSIVE sort_values(_)
sort_values(df) ==
    IF df = <<>> THEN <<>>
    ELSE InsertByDate(sort_values(SubSeq(df, 1, Len(df) - 1)), df[Len(df)])

\* df.assign(is_forecast=flag)
AssignIsForecast(df, flag) ==
    [i \in 1..Len(df) |->
        [date |-> df[i].date, value |-> df[i].value, is_forecast |-> flag]]

----------------------------------------------------------------------------
(* linear_forecast *)

\* np.polyfit(x, y, deg=1) for integer y: the least-squares line, kept in
\* point-slope form at x[1] ("at0" is the line's value at x0 = x[1]), so
\* that intercept + slope * x_future is at0 + slope * (x_future - x0).
\* When every x is the same c the system has rank 1 and lstsq returns the
\* minimum-norm solution on polyfit's scaled columns: slope = mean(y)/(2c),
\* intercept = mean(y)/2, whose value at c is mean(y).
polyfit(x, y) ==
    LET n  == Len(x)
        x0 == x[1]
        u  == [i \in 1..n |-> x[i] - x0]
        Su  == SumSeq(u)
        Sy  == SumSeq(y)
        Suy == SumSeq([i \in 1..n |-> u[i] * y[i]])
        Suu == SumSeq([i \in 1..n |-> u[i] * u[i]])
        N == n * Suy - Su * Sy
        D == n * Suu - Su * Su
    IN  IF D # 0
        THEN [slope |-> Rat(N, D), at0 |-> Rat(Sy * D - N * Su, n * D), x0 |-> x0]
        ELSE [slope |-> Rat(Sy, 2 * x0 * n), at0 |-> Rat(Sy, n), x0 |-> x0]

\* intercept + slope * x_future
PolyVal(p, xf) == RatAdd(p.at0, RatMul(p.slope, Num(xf - p.x0)))

\* a slip: range(0, periods) in place of range(1, periods+1)
FutureDateFromZero(last, i, freq) ==
    IF freq = "M" THEN DateOffsetMonths(last, i - 1) ELSE TimedeltaDays(last, 30 * (i - 1))

\* the i-th future date, i = 1..periods
FutureDate(last, i, freq) ==
    IF freq = "M" THEN DateOffsetMonths(last, i) ELSE TimedeltaDays(last, 30 * i)

\* a slip: len(df) < 2
TooShortOffByOne(df) == df = <<>> \/ Len(df) < 2

\* if df.empty or len(df) < 3
TooShort(df) == df = <<>> \/ Len(df) < 3

linear_forecast(df, periods, freq) ==
    IF TooShort(df) THEN AssignIsForecast(df, FALSE)
    ELSE
        LET s == sort_values(df)
            x == [i \in 1..Len(s) |-> toordinal(s[i].date)]
            y == [i \in 1..Len(s) |-> s[i].value.n]
            p == polyfit(x, y)
            last == s[Len(s)].date
            fut_df == [i \in 1..periods |->
                        LET fd == FutureDate(last, i, freq)
                        IN  [date |-> fd, value |-> PolyVal(p, toordinal(fd)),
                             is_forecast |-> TRUE]]
        IN  AssignIsForecast(s, FALSE) \o fut_df

----------------------------------------------------------------------------
(* Inputs of the forecast specification *)

DateChoices == {<<2021, 1, 1>>, <<2021, 1, 31>>, <<2021, 2, 1>>, <<2021, 3, 1>>}
ValueChoices == {100, 102, 104}
FreqChoices == {"M", "D"}

RowChoices == {[date |-> t, value |-> Num(v)] : t \in DateChoices, v \in ValueChoices}

SeqsUpTo(S, n) == UNION {[1..k -> S] : k \in 0..n}

----------------------------------------------------------------------------
(* Each page's variables while another page is the one being rendered *)

\* no file in the uploader; `merged` and `corr` not assigned
NoFile == [name |-> "", readable |-> FALSE, header |-> <<>>, rows |-> <<>>]
NoTable == [cols |-> <<>>, dtypes |-> <<>>, rows |-> <<>>]
NoCorr == [cols |-> <<>>, diag |-> <<>>]

\* fetch_usdinr's None; no request sent yet
None == [k |-> "none", n |-> 0, d |-> 1]
NotSent == [kind |-> "not sent"]
NoResponses == [us |-> NotSent, fed |-> NotSent, ind |-> NotSent, usd |-> NotSent]

IdleForecast ==
    /\ fc_df = <<>> /\ fc_periods = 0 /\ fc_freq = "M" /\ fc_out = <<>> /\ fc_pc = "idle"

IdleRisk ==
    /\ eq = 0 /\ debt = 0 /\ gold = 0 /\ risk_score = 0
    /\ risk_error = FALSE /\ risk_label = "none" /\ risk_pc = "idle"

IdleLiquidity ==
    /\ file = NoFile /\ uploaded_df = <<>> /\ proj = <<>> /\ liq_msg = "none" /\ liq_pc = "idle"

IdleCorrelation ==
    /\ uploaded = <<>> /\ idx = 0 /\ dfs = <<>> /\ merged = NoTable /\ corr = NoCorr
    /\ corr_msgs = <<>> /\ corr_pc = "idle"

IdleReport ==
    /\ FRED_API_KEY = FALSE /\ resp = NoResponses /\ us_df = <<>> /\ fed_df = <<>> /\ ind_df = <<>>
    /\ usd_inr = None /\ lines = <<>> /\ rep_pc = "idle"

----------------------------------------------------------------------------
(* Specification SpecForecast: linear_forecast applied to a caller's table *)

InitForecast ==
    /\ fc_df \in SeqsUpTo(RowChoices, MaxLen)
    /\ fc_periods \in 1..MaxPeriods
    /\ fc_freq \in FreqChoices
    /\ fc_out = <<>>
    /\ fc_pc = "call"
    /\ IdleRisk /\ IdleLiquidity /\ IdleCorrelation /\ IdleReport

\* out = linear_forecast(df, periods, freq); the caller's df is not rebound
LinearForecast ==
    /\ fc_pc = "call"
    /\ fc_out' = linear_forecast(fc_df, fc_periods, fc_freq)
    /\ fc_pc' = "done"
    /\ UNCHANGED <<fc_df, fc_periods, fc_freq>>
    /\ UNCHANGED <<riskVars, liqVars, corrVars, repVars>>

NextForecast == LinearForecast

SpecForecast == InitForecast /\ [][NextForecast]_vars

----------------------------------------------------------------------------
(* Claims about linear_forecast *)

ScenarioA ==
    << [date |-> <<2021, 1, 1>>, value |-> Num(100)],
       [date |-> <<2021, 2, 1>>, value |-> Num(102)],
       [date |-> <<2021, 3, 1>>, value |-> Num(104)] >>

ScenarioCall ==
    fc_pc = "done" /\ fc_df = ScenarioA /\ fc_periods = 2 /\ fc_freq = "M"

\* C1 as stated: on series A with periods=2 and freq='M' exactly two points
\* are appended, dated 2021-04-01 and 2021-05-01, with values 106 and 108.
C1_AsStated ==
    ScenarioCall =>
        /\ Len(fc_out) = 5
        /\ fc_out[4] = [date |-> <<2021, 4, 1>>, value |-> Num(106), is_forecast |-> TRUE]
        /\ fc_out[5] = [date |-> <<2021, 5, 1>>, value |-> Num(108), is_forecast |-> TRUE]

\* C1 amended: on series A with periods=2 and freq='M' exactly two points are
\* appended, dated 2021-04-01 and 2021-05-01, whose values are those of the
\* least-squares line over the day ordinals, 92382/871 (about 106.06) and
\* 94152/871 (about 108.10): January to March are not equally long, so the
\* fitted line is not the continuation by 2 per month.
C1_Scenario ==
    ScenarioCall =>
        /\ Len(fc_out) = 5
        /\ fc_out[4] = [date |-> <<2021, 4, 1>>, value |-> Rat(92382, 871), is_forecast |-> TRUE]
        /\ fc_out[5] = [date |-> <<2021, 5, 1>>, value |-> Rat(94152, 871), is_forecast |-> TRUE]

C1_Witness == ScenarioCall /\ Len(fc_out) = 5 /\ fc_out[5].is_forecast

\* the rows of a table, counted: two tables hold the same rows when equal
RowCount(df, r) == Cardinality({i \in 1..Len(df) : df[i] = r})
SameRows(a, b) ==
    /\ Len(a) = Len(b)
    /\ \A i \in 1..Len(a) : RowCount(a, a[i]) = RowCount(b, a[i])

DropFlag(out) == [i \in 1..Len(out) |-> [date |-> out[i].date, value |-> out[i].value]]

C7_Output ==
    (fc_pc = "done" /\ Len(fc_df) >= 3) =>
        LET h == Len(fc_df)
            hist == SubSeq(fc_out, 1, h)
        IN  /\ Len(fc_out) = h + fc_periods
            /\ SameRows(DropFlag(hist), fc_df)
            /\ \A i \in 1..h : fc_out[i].is_forecast = FALSE
            /\ \A i \in (h + 1)..Len(fc_out) : fc_out[i].is_forecast = TRUE
            /\ \A i \in 1..(h - 1) : DateLeq(fc_out[i].date, fc_out[i + 1].date)
            /\ \A i \in h..(Len(fc_out) - 1) : DateLt(fc_out[i].date, fc_out[i + 1].date)

\* C7: for a series of length >= 3 and a horizon h >= 1 the result is the
\* historical rows in date order, values unchanged and flagged false, then
\* exactly h rows flagged true whose dates are strictly increasing and
\* strictly after the last historical date; the caller's table is not changed.
C7_Forecast == [](C7_Output) /\ [][fc_df' = fc_df]_vars

C7_Witness ==
    /\ fc_pc = "done" /\ Len(fc_df) = 3 /\ fc_periods = 2
    /\ fc_df[1].date = <<2021, 3, 1>> /\ fc_df[3].date = <<2021, 1, 31>>
    /\ Len(fc_out) = 5 /\ fc_out[5].is_forecast

\* C8: for a series of fewer than 3 rows (the empty one too) and any horizon
\* the result is the input rows, in the input's order, none added, each
\* flagged is_forecast = false.
C8_ShortSeries ==
    (fc_pc = "done" /\ Len(fc_df) < 3) =>
        /\ DropFlag(fc_out) = fc_df
        /\ \A i \in 1..Len(fc_out) : fc_out[i].is_forecast = FALSE

C8_Witness ==
    /\ fc_pc = "done" /\ Len(fc_df) = 2 /\ Len(fc_out) = 2
    /\ DateLt(fc_df[2].date, fc_df[1].date)

----------------------------------------------------------------------------
(* Specification SpecRisk: the Riskometer page *)

\* st.slider(label, 0, 100, default)
SliderMin == 0
SliderMax == 100

\* a slip: the score is computed whatever the sum is
RiskScoreUnguarded(e, d, g) == 7 * e + 2 * g + d

\* risk_score in tenths: 0 when the allocation does not sum to 100, else
\* eq*0.7 + gold*0.2 + debt*0.1
RiskScore(e, d, g) ==
    IF e + d + g # 100 THEN 0 ELSE 7 * e + 2 * g + d

\* The label chosen by risk_score < 30, risk_score < 60.  The float sum can
\* fall one ulp below a threshold its exact value meets (29/45/26 gives
\* 29.999999999999996), so on a threshold either side may be taken.
RiskLabels(score) ==
    IF score < 300 THEN {"LOW RISK"}
    ELSE IF score = 300 THEN {"LOW RISK", "MODERATE RISK"}
    ELSE IF score < 600 THEN {"MODERATE RISK"}
    ELSE IF score = 600 THEN {"MODERATE RISK", "HIGH RISK"}
    ELSE {"HIGH RISK"}

InitRisk ==
    /\ eq = 0 /\ debt = 0 /\ gold = 0 /\ risk_score = 0
    /\ risk_error = FALSE /\ risk_label = "none" /\ risk_pc = "render"
    /\ IdleForecast /\ IdleLiquidity /\ IdleCorrelation /\ IdleReport

\* one run of the page with the sliders at e, d, g
Riskometer ==
    /\ risk_pc = "render"
    /\ \E e \in SliderMin..SliderMax, d \in SliderMin..SliderMax, g \in SliderMin..SliderMax :
          /\ eq' = e /\ debt' = d /\ gold' = g
          /\ risk_error' = (e + d + g # 100)
          /\ risk_score' = RiskScore(e, d, g)
          /\ risk_label' \in RiskLabels(RiskScore(e, d, g))
    /\ risk_pc' = "done"
    /\ UNCHANGED <<fcVars, liqVars, corrVars, repVars>>

NextRisk == Riskometer

SpecRisk == InitRisk /\ [][NextRisk]_vars

\* C10: for all allocations in 0..100, a sum other than 100 shows the error
\* and scores 0; a sum of 100 scores 0.7*eq + 0.2*gold + 0.1*debt, between 10
\* and 70.  So the score is within the gauge's 0..100, HIGH RISK is shown
\* only for a valid allocation scoring at least 60, and an invalid one is
\* labelled LOW RISK.  (risk_score is in tenths.)
C10_Riskometer ==
    risk_pc = "done" =>
        /\ (eq + debt + gold # 100) =>
                risk_error /\ risk_score = 0 /\ risk_label = "LOW RISK"
        /\ (eq + debt + gold = 100) =>
                /\ ~risk_error
                /\ risk_score = 7 * eq + 2 * gold + debt
                /\ risk_score >= 100 /\ risk_score <= 700
        /\ risk_score >= 0 /\ risk_score <= 1000
        /\ risk_label = "HIGH RISK" => (eq + debt + gold = 100 /\ risk_score >= 600)

C10_Witness ==
    /\ risk_pc = "done" /\ eq = 90 /\ debt = 10 /\ gold = 0
    /\ risk_score = 640 /\ risk_label = "HIGH RISK"

----------------------------------------------------------------------------
(* CSV files.  A file is [name, readable, header, rows]: header is the      *)
(* sequence of column titles as written, rows the cells under the date and *)
(* the value column (or under whatever column stands in their place).      *)
(* A date cell is a <<y, m, d>> that may name no calendar day, or NaT for  *)
(* an empty cell; a value cell is Num(n), StrJunk or NaN (empty).          *)

\* c.strip().lower() on the titles the model uses
StripLower(c) ==
    CASE c = " Date " -> "date"
      [] c = "VALUE" -> "value"
      [] OTHER -> c

\* df.columns = [c.strip().lower() for c in df.columns]
NormalizedColumns(f) == {StripLower(f.header[i]) : i \in 1..Len(f.header)}

\* a slip: only the date column is looked for
RequiredColumnsDateOnly(f) == "date" \in NormalizedColumns(f)

\* not ('date' not in df.columns or 'value' not in df.columns)
RequiredColumnsPresent(f) ==
    "date" \in NormalizedColumns(f) /\ "value" \in NormalizedColumns(f)

\* the dtype pd.read_csv gives the value column: text as soon as one cell
\* is no number
ValueDtype(f) ==
    IF \E i \in 1..Len(f.rows) : f.rows[i].value = StrJunk THEN "object" ELSE "float64"

\* pd.read_csv(f): in an object column the numbers stay text
read_csv(f) ==
    [i \in 1..Len(f.rows) |->
        [date |-> f.rows[i].date,
         value |-> IF ValueDtype(f) = "object" /\ f.rows[i].value.k = "num"
                   THEN StrNum(f.rows[i].value.n) ELSE f.rows[i].value]]

\* pd.to_datetime(cell, errors='coerce')
to_datetime(t) == IF IsDate(t) THEN t ELSE NaT

\* pd.to_numeric(cell, errors='coerce')
to_numeric(c) ==
    IF c.k = "num" THEN c
    ELSE IF c.k = "str" /\ c.d = 1 THEN Num(c.n)
    ELSE NaN

ParseDates(df) ==
    [i \in 1..Len(df) |-> [date |-> to_datetime(df[i].date), value |-> df[i].value]]

IsMissingRow(r) == r.date = NaT \/ r.value = NaN

\* df.dropna(subset=['date','value'])
dropna(df) == SelectSeq(df, LAMBDA r : ~IsMissingRow(r))

CoerceValues(df) ==
    [i \in 1..Len(df) |-> [date |-> df[i].date, value |-> to_numeric(df[i].value)]]

----------------------------------------------------------------------------
(* Liquidity page: the upload column *)

\* linear_forecast(df, periods=12, freq='M')
LiquidityPeriods == 12

\* lines 239-242: parse dates, drop missing, sort, coerce values, drop again
NormalizeLiquidity(df) ==
    dropna(CoerceValues(sort_values(dropna(ParseDates(df)))))

\* the block under `with col4:` for the uploaded file
LiquidityUpload ==
    /\ liq_pc = "upload"
    /\ liq_pc' = "done"
    /\ IF file = NoFile
       THEN liq_msg' = "none" /\ uploaded_df' = <<>> /\ proj' = <<>>
       ELSE IF ~file.readable
       THEN liq_msg' = "CSV parsing error" /\ uploaded_df' = <<>> /\ proj' = <<>>
       ELSE IF ~RequiredColumnsPresent(file)
       THEN liq_msg' = "CSV must contain 'date' and 'value' columns"
            /\ uploaded_df' = <<>> /\ proj' = <<>>
       ELSE LET df == NormalizeLiquidity(read_csv(file))
            IN  IF df = <<>>
                THEN liq_msg' = "no valid date/value rows found"
                     /\ uploaded_df' = <<>> /\ proj' = <<>>
                ELSE /\ liq_msg' = "none"
                     /\ uploaded_df' = df
                     /\ proj' = linear_forecast(df, LiquidityPeriods, "M")
    /\ UNCHANGED file
    /\ UNCHANGED <<fcVars, riskVars, corrVars, repVars>>

----------------------------------------------------------------------------
(* Correlation page: the upload loop.  dfs is the dict in insertion order, *)
(* each entry [name, dtype, rows] the table d[['date', name]].             *)

\* lines 280-282: parse dates, drop missing, keep date and value
NormalizeCorrelation(df) == dropna(ParseDates(df))

RECURSIVE KeyIndex(_, _)
KeyIndex(d, name) ==
    IF d = <<>> THEN 0
    ELSE IF d[Len(d)].name = name THEN Len(d)
    ELSE KeyIndex(SubSeq(d, 1, Len(d) - 1), name)

\* dfs[name] = d: a key already present keeps its place
DictPut(d, entry) ==
    IF KeyIndex(d, entry.name) = 0 THEN Append(d, entry)
    ELSE [d EXCEPT ![KeyIndex(d, entry.name)] = entry]

\* the entry the loop body stores for a file that has both columns
SeriesOf(f) ==
    [name |-> f.name, dtype |-> ValueDtype(f), rows |-> NormalizeCorrelation(read_csv(f))]

\* one iteration of `for f in uploaded`
ProcessFile ==
    /\ corr_pc = "loop"
    /\ idx < Len(uploaded)
    /\ LET f == uploaded[idx + 1]
       IN  IF ~f.readable
           THEN /\ corr_msgs' = Append(corr_msgs, [msg |-> "Couldn't parse", name |-> f.name])
                /\ dfs' = dfs
           ELSE IF ~RequiredColumnsPresent(f)
           THEN /\ corr_msgs' = Append(corr_msgs, [msg |-> "Skipping", name |-> f.name])
                /\ dfs' = dfs
           ELSE /\ dfs' = DictPut(dfs, SeriesOf(f))
                /\ corr_msgs' = corr_msgs
    /\ idx' = idx + 1
    /\ UNCHANGED <<uploaded, merged, corr, corr_pc>>
    /\ UNCHANGED <<fcVars, riskVars, liqVars, repVars>>

----------------------------------------------------------------------------
(* Correlation page: merge, interpolate, correlate.  A merged table is     *)
(* [cols, dtypes, rows], each row [date, cells] with one cell per column.  *)

RECURSIVE Concat(_)
Concat(ss) == IF ss = <<>> THEN <<>> ELSE Head(ss) \o Concat(Tail(ss))

DatesOf(rows) == {rows[i].date : i \in 1..Len(rows)}

MinDate(S) == CHOOSE t \in S : \A u \in S : DateLeq(t, u)
MaxDate(S) == CHOOSE t \in S : \A u \in S : DateLeq(u, t)

RECURSIVE SortedDates(_)
SortedDates(S) ==
    IF S = {} THEN <<>> ELSE <<MinDate(S)>> \o SortedDates(S \ {MinDate(S)})

RowsAt(rows, t) == SelectSeq(rows, LAMBDA r : r.date = t)

NaNs(n) == [i \in 1..n |-> NaN]

\* merged = d.copy()
FirstTable(e) ==
    [cols |-> <<e.name>>, dtypes |-> <<e.dtype>>,
     rows |-> [i \in 1..Len(e.rows) |-> [date |-> e.rows[i].date, cells |-> <<e.rows[i].value>>]]]

\* pd.merge(merged, d, on='date', how='outer'): the keys in sorted order;
\* under one key every left row is paired with every right row, and a key
\* one side lacks gets NaN in that side's columns
OuterMerge(m, e) ==
    LET n == Len(m.cols)
        Block(t) ==
            LET L == RowsAt(m.rows, t)
                R == RowsAt(e.rows, t)
            IN  IF L = <<>>
                THEN [j \in 1..Len(R) |-> [date |-> t, cells |-> Append(NaNs(n), R[j].value)]]
                ELSE IF R = <<>>
                THEN [i \in 1..Len(L) |-> [date |-> t, cells |-> Append(L[i].cells, NaN)]]
                ELSE [p \in 1..(Len(L) * Len(R)) |->
                        [date |-> t,
                         cells |-> Append(L[((p - 1) \div Len(R)) + 1].cells,
                                          R[((p - 1) % Len(R)) + 1].value)]]
        keys == SortedDates(DatesOf(m.rows) \cup DatesOf(e.rows))
    IN  [cols |-> Append(m.cols, e.name), dtypes |-> Append(m.dtypes, e.dtype),
         rows |-> Concat([i \in 1..Len(keys) |-> Block(keys[i])])]

\* the loop over dfs.items()
RECURSIVE MergeAll(_)
MergeAll(d) ==
    IF Len(d) = 1 THEN FirstTable(d[1])
    ELSE OuterMerge(MergeAll(SubSeq(d, 1, Len(d) - 1)), d[Len(d)])

SetMax(S) == CHOOSE a \in S : \A b \in S : b <= a
SetMin(S) == CHOOSE a \in S : \A b \in S : a <= b

\* the value at position i on the line through (p, a) and (q, b)
Between(a, b, p, q, i) ==
    RatAdd(a, RatMul(RatAdd(b, RatMul(Num(-1), a)), Rat(i - p, q - p)))

\* Series.interpolate() with its defaults (method='linear', which takes the
\* rows as equally spaced, limit_direction='forward', limit_area=None): a
\* gap between two known values gets the line between them, a gap after the
\* last known value gets that value, a gap before the first stays NaN
InterpolateColumn(col) ==
    [i \in 1..Len(col) |->
        IF col[i] # NaN THEN col[i]
        ELSE LET before == {j \in 1..(i - 1) : col[j] # NaN}
                 after  == {j \in (i + 1)..Len(col) : col[j] # NaN}
             IN  IF before = {} THEN NaN
                 ELSE IF after = {} THEN col[SetMax(before)]
                 ELSE Between(col[SetMax(before)], col[SetMin(after)],
                              SetMax(before), SetMin(after), i)]

Column(m, c) == [i \in 1..Len(m.rows) |-> m.rows[i].cells[c]]

\* DataFrame.interpolate(): column by column; an object column is left alone
Interpolate(m) ==
    LET new == [c \in 1..Len(m.cols) |->
                   IF m.dtypes[c] = "object" THEN Column(m, c)
                   ELSE InterpolateColumn(Column(m, c))]
    IN  [m EXCEPT !.rows = [i \in 1..Len(m.rows) |->
            [date |-> m.rows[i].date, cells |-> [c \in 1..Len(m.cols) |-> new[c][i]]]]]

\* .dropna(axis=0, how='all')
DropAllNaN(m) ==
    [m EXCEPT !.rows = SelectSeq(m.rows,
        LAMBDA r : \E c \in 1..Len(r.cells) : r.cells[c] # NaN)]

\* line 294
MergedPanel(d) ==
    LET m == MergeAll(d)
    IN  DropAllNaN(Interpolate([m EXCEPT !.rows = sort_values(m.rows)]))

\* the cells of column c that hold a value, as numbers
Observed(m, c) ==
    {to_numeric(m.rows[i].cells[c]) : i \in {j \in 1..Len(m.rows) : m.rows[j].cells[c] # NaN}}

\* merged.corr() over the columns `cs`, as far as integers tell: the
\* diagonal entry of a column is 1.0 when the column has two different
\* values and NaN otherwise (one observation, or zero variance); the
\* entries off the diagonal need a square root and are not computed
CorrOver(m, cs) ==
    [cols |-> [i \in 1..Len(cs) |-> m.cols[cs[i]]],
     diag |-> [i \in 1..Len(cs) |->
                 IF Cardinality(Observed(m, cs[i])) >= 2 THEN Num(1) ELSE NaN]]

AllColumns(m) == [c \in 1..Len(m.cols) |-> c]

RECURSIVE NumericColumnsUpTo(_, _)
NumericColumnsUpTo(m, n) ==
    IF n = 0 THEN <<>>
    ELSE IF m.dtypes[n] = "object" THEN NumericColumnsUpTo(m, n - 1)
    ELSE Append(NumericColumnsUpTo(m, n - 1), n)

NumericColumns(m) == NumericColumnsUpTo(m, Len(m.cols))

HasObjectColumn(d) == \E i \in 1..Len(d) : d[i].dtype = "object"
AllObjectColumns(d) == \A i \in 1..Len(d) : d[i].dtype = "object"
HasJunk(d) == \E i \in 1..Len(d) : \E j \in 1..Len(d[i].rows) : d[i].rows[j].value = StrJunk

\* What merged.corr() may return.  With float columns only it is the matrix
\* over all of them.  With an object column pandas 1.x leaves that column
\* out, and pandas 2.x reads its text as numbers (and raises on text that
\* is no number, see MergeRaises).
CorrOutcomes(m, d) ==
    {CorrOver(m, NumericColumns(m))}
        \cup (IF HasJunk(d) THEN {} ELSE {CorrOver(m, AllColumns(m))})

\* a slip: merged.shape[1] > 0
ShouldCorrelateAny(m) == Len(m.cols) > 0

\* if merged.shape[1] > 1
ShouldCorrelate(m) == Len(m.cols) > 1

\* lines 286-302 when no call raises
MergeAndCorrelate ==
    /\ corr_pc = "loop"
    /\ idx = Len(uploaded)
    /\ dfs # <<>>
    /\ ~AllObjectColumns(dfs)
    /\ merged' = MergedPanel(dfs)
    /\ IF ShouldCorrelate(MergedPanel(dfs))
       THEN /\ corr' \in CorrOutcomes(MergedPanel(dfs), dfs)
            /\ corr_msgs' = corr_msgs
       ELSE /\ corr' = NoCorr
            /\ corr_msgs' = Append(corr_msgs,
                    [msg |-> "Upload at least 2 series to compute correlation.", name |-> ""])
    /\ corr_pc' = "done"
    /\ UNCHANGED <<uploaded, idx, dfs>>
    /\ UNCHANGED <<fcVars, riskVars, liqVars, repVars>>

\* lines 286-302 when an object column makes a call raise, outside any
\* try: interpolate() raises TypeError when every column is object (and,
\* in pandas 3, when any is) and `merged` is never assigned; corr() of
\* pandas 2.x raises ValueError on text that is no number
MergeRaises ==
    /\ corr_pc = "loop"
    /\ idx = Len(uploaded)
    /\ HasObjectColumn(dfs)
    /\ \/ merged' = NoTable
       \/ /\ ~AllObjectColumns(dfs)
          /\ HasJunk(dfs)
          /\ ShouldCorrelate(MergedPanel(dfs))
          /\ merged' = MergedPanel(dfs)
    /\ corr_pc' = "error"
    /\ UNCHANGED <<uploaded, idx, dfs, corr, corr_msgs>>
    /\ UNCHANGED <<fcVars, riskVars, liqVars, repVars>>

\* `if uploaded:` / `if dfs:` false: nothing to merge
NothingToMerge ==
    /\ corr_pc = "loop"
    /\ idx = Len(uploaded)
    /\ dfs = <<>>
    /\ corr_pc' = "done"
    /\ UNCHANGED <<uploaded, idx, dfs, merged, corr, corr_msgs>>
    /\ UNCHANGED <<fcVars, riskVars, liqVars, repVars>>

----------------------------------------------------------------------------
(* Specification SpecUpload: the two pages that take CSV uploads *)

D1 == <<2021, 1, 1>>
D2 == <<2021, 2, 1>>
D3 == <<2021, 3, 1>>
\* 30 February: text pd.to_datetime cannot parse
BadDate == <<2021, 2, 30>>

HeaderChoices ==
    {<<"date", "value">>, <<" Date ", "VALUE">>, <<"date", "amount">>, <<"time", "value">>}

CsvRowChoices ==
    {[date |-> t, value |-> v] : t \in {D1, D2, BadDate}, v \in {Num(10), Num(20), StrJunk, NaN}}

\* the Liquidity uploader takes one file: every table of up to MaxRows rows
LiquidityFileChoices ==
    {[name |-> "liq", readable |-> TRUE, header |-> h, rows |-> r] :
        h \in HeaderChoices, r \in SeqsUpTo(CsvRowChoices, MaxRows)}
    \cup {[name |-> "liq", readable |-> FALSE, header |-> <<>>, rows |-> <<>>]}

R(t, v) == [date |-> t, value |-> v]

\* the Correlation uploader takes a list of files: monthly January to
\* March; January alone; January and March; one date twice; one row of
\* each kind of bad cell; no row that parses
TableChoices ==
    { <<R(D1, Num(10)), R(D2, Num(20)), R(D3, Num(40))>>,
      <<R(D1, Num(10))>>,
      <<R(D1, Num(20)), R(D3, Num(10))>>,
      <<R(D2, Num(10)), R(D2, Num(20))>>,
      <<R(BadDate, Num(10)), R(D1, StrJunk), R(D2, NaN)>>,
      <<R(BadDate, Num(10)), R(NaT, Num(20))>> }

CorrelationFileChoices ==
    {[name |-> n, readable |-> TRUE, header |-> <<"date", "value">>, rows |-> r] :
        n \in {"a", "b"}, r \in TableChoices}
    \cup {[name |-> n, readable |-> TRUE, header |-> <<"date", "amount">>,
           rows |-> <<R(D1, Num(10)), R(D2, Num(20))>>] : n \in {"a", "b"}}
    \cup {[name |-> n, readable |-> FALSE, header |-> <<>>, rows |-> <<>>] : n \in {"a", "b"}}

InitUpload ==
    /\ \/ /\ file \in LiquidityFileChoices \cup {NoFile}
          /\ uploaded_df = <<>> /\ proj = <<>> /\ liq_msg = "none" /\ liq_pc = "upload"
          /\ IdleCorrelation
       \/ /\ uploaded \in SeqsUpTo(CorrelationFileChoices, MaxFiles)
          /\ idx = 0 /\ dfs = <<>> /\ merged = NoTable /\ corr = NoCorr
          /\ corr_msgs = <<>> /\ corr_pc = "loop"
          /\ IdleLiquidity
    /\ IdleForecast /\ IdleRisk /\ IdleReport

NextUpload ==
    \/ LiquidityUpload
    \/ ProcessFile
    \/ MergeAndCorrelate
    \/ MergeRaises
    \/ NothingToMerge

SpecUpload == InitUpload /\ [][NextUpload]_vars

----------------------------------------------------------------------------
(* Claims about the uploads *)

StrictlyAscending(rows) ==
    \A i \in 1..(Len(rows) - 1) : DateLt(rows[i].date, rows[i + 1].date)

\* C2: for every CSV upload with `date` and `value` columns the normalized
\* series is sorted strictly ascending by date, with no date twice, also
\* when the input has several rows of one date (Liquidity upload and every
\* file of the Correlation multi-upload).
C2_AsStated ==
    /\ liq_pc = "done" => StrictlyAscending(uploaded_df)
    /\ \A i \in 1..Len(dfs) : StrictlyAscending(dfs[i].rows)

FirstDate(rows) == MinDate(DatesOf(rows))
LastDate(rows) == MaxDate(DatesOf(rows))

\* C3: in the merged panel a series' column is filled only between that
\* series' own first and last known dates: every cell at a date before its
\* first or after its last known date is missing after interpolation.
C3_AsStated ==
    corr_pc = "done" =>
        \A c \in 1..Len(merged.cols) : \A i \in 1..Len(merged.rows) :
            LET own == dfs[KeyIndex(dfs, merged.cols[c])].rows
            IN  (own # <<>> /\ (DateLt(merged.rows[i].date, FirstDate(own))
                                \/ DateLt(LastDate(own), merged.rows[i].date)))
                    => merged.rows[i].cells[c] = NaN

ParsedRow(r) == IsDate(r.date) /\ r.value.k = "num"

\* C4: a record whose date or value fails to parse is excluded from the
\* normalized series on every path from an uploaded CSV to a series (the
\* Liquidity upload and each file of the Correlation multi-upload), and a
\* fully unparsable input gives an empty series, not an exception.
C4_AsStated ==
    /\ liq_pc = "done" =>
            /\ \A i \in 1..Len(uploaded_df) : ParsedRow(uploaded_df[i])
            /\ (file.readable /\ RequiredColumnsPresent(file)) => liq_msg # "CSV parsing error"
    /\ \A i \in 1..Len(dfs) : \A j \in 1..Len(dfs[i].rows) : ParsedRow(dfs[i].rows[j])

InfoShown ==
    corr_msgs # <<>> /\
    corr_msgs[Len(corr_msgs)].msg = "Upload at least 2 series to compute correlation."

HasBothColumns(f) ==
    f.readable /\ {"date", "value"} \subseteq NormalizedColumns(f)

RECURSIVE AcceptedFrom(_)
AcceptedFrom(files) ==
    IF files = <<>> THEN <<>>
    ELSE DictPut(AcceptedFrom(SubSeq(files, 1, Len(files) - 1)), SeriesOf(files[Len(files)]))

\* C6: a CSV without the `value` (or `date`) column is rejected and changes
\* nothing else.  In the Correlation multi-upload it is skipped with a
\* warning, and dfs holds exactly the series of the well-formed files, each
\* as if the rejected file had not been in the list, wherever it stood; in
\* the Liquidity upload no series is set and no forecast is computed.
C6_Rejected ==
    /\ dfs = AcceptedFrom(SelectSeq(SubSeq(uploaded, 1, idx), HasBothColumns))
    /\ Len(corr_msgs) >= Len(SelectSeq(SubSeq(uploaded, 1, idx), LAMBDA f : ~HasBothColumns(f)))
    /\ (liq_pc = "done" /\ file # NoFile /\ ~HasBothColumns(file)) =>
            /\ uploaded_df = <<>>
            /\ proj = <<>>
            /\ liq_msg \in {"CSV must contain 'date' and 'value' columns", "CSV parsing error"}

C6_Witness ==
    /\ corr_pc = "done" /\ Len(uploaded) = 3
    /\ HasBothColumns(uploaded[1]) /\ HasBothColumns(uploaded[3])
    /\ uploaded[2].readable /\ "value" \notin NormalizedColumns(uploaded[2])
    /\ uploaded[1].name # uploaded[3].name
    /\ Len(dfs) = 2 /\ Len(merged.cols) = 2

----------------------------------------------------------------------------
(* The fetchers.  A response is [kind, ...]: kind "timeout" is             *)
(* requests.get raising, "http error" is raise_for_status raising, "ok"    *)
(* carries the parsed JSON.  A fetcher returns [raised, df]: raised says   *)
(* an exception left the function.                                         *)

Returned(df) == [raised |-> FALSE, df |-> df]
Raised == [raised |-> TRUE, df |-> <<>>]

\* a slip: get_fred without its try/except
get_fredNoExcept(key, r) ==
    IF ~key THEN Returned(<<>>)
    ELSE IF r.kind # "ok" THEN Raised
    ELSE IF r.observations = <<>> THEN Returned(<<>>)
    ELSE IF \E i \in 1..Len(r.observations) : ~IsDate(r.observations[i].date) THEN Raised
    ELSE Returned(dropna(CoerceValues(r.observations)))

\* get_fred(series_id): an empty table without a key, on any exception
\* (pd.to_datetime without errors='coerce' raises on a bad date) and on an
\* empty payload; else the observations whose value is a number
get_fred(key, r) ==
    IF ~key THEN Returned(<<>>)
    ELSE IF r.kind # "ok" THEN Returned(<<>>)
    ELSE IF r.observations = <<>> THEN Returned(<<>>)
    ELSE IF \E i \in 1..Len(r.observations) : ~IsDate(r.observations[i].date)
    THEN Returned(<<>>)
    ELSE Returned(dropna(CoerceValues(r.observations)))

\* pd.to_datetime(year, format="%Y", errors="coerce"); year 0 stands for
\* text that is no year
YearToDatetime(y) == IF y >= 1 THEN <<y, 1, 1>> ELSE NaT

\* india_cpi(): payload is the JSON list; payload[1] may be null, and then
\* df["year"] raises KeyError inside the try
india_cpi(r) ==
    IF r.kind # "ok" THEN Returned(<<>>)
    ELSE IF r.payload_len < 2 THEN Returned(<<>>)
    ELSE IF r.data_is_null THEN Returned(<<>>)
    ELSE Returned(sort_values(dropna(
            [i \in 1..Len(r.data) |->
                [date |-> YearToDatetime(r.data[i].year), value |-> r.data[i].value]])))

\* fetch_usdinr(): the rate, or None
fetch_usdinr(r) ==
    IF r.kind # "ok" THEN None
    ELSE IF ~r.has_rate THEN None
    ELSE r.rate

----------------------------------------------------------------------------
(* Specification SpecReport: the PDF Report page *)

FredResponseChoices ==
    {[kind |-> "timeout"], [kind |-> "http error"]}
    \cup {[kind |-> "ok", observations |-> o] : o \in
            { <<>>,
              <<R(D1, StrNum(10)), R(D2, StrNum(20))>>,
              <<R(D1, StrNum(20)), R(D2, StrNum(10)), R(D3, StrJunk)>>,
              <<R(D1, StrJunk)>>,
              <<R(D1, StrNum(10)), R(BadDate, StrNum(20))>> }}

Y(y, v) == [year |-> y, value |-> v]

IndiaResponseChoices ==
    {[kind |-> "timeout"], [kind |-> "http error"],
     [kind |-> "ok", payload_len |-> 1, data_is_null |-> TRUE, data |-> <<>>],
     [kind |-> "ok", payload_len |-> 2, data_is_null |-> TRUE, data |-> <<>>]}
    \cup {[kind |-> "ok", payload_len |-> 2, data_is_null |-> FALSE, data |-> d] : d \in
            { <<>>,
              <<Y(2021, NaN), Y(2020, Num(15)), Y(2019, Num(12))>>,
              <<Y(2020, Num(30)), Y(0, Num(40))>>,
              <<Y(2021, NaN)>> }}

UsdInrResponseChoices ==
    {[kind |-> "timeout"], [kind |-> "http error"],
     [kind |-> "ok", has_rate |-> FALSE, rate |-> None],
     [kind |-> "ok", has_rate |-> TRUE, rate |-> Num(83)]}

InitReport ==
    /\ FRED_API_KEY \in BOOLEAN
    /\ resp = NoResponses
    /\ us_df = <<>> /\ fed_df = <<>> /\ ind_df = <<>>
    /\ usd_inr = None /\ lines = <<>> /\ rep_pc = "us_df"
    /\ IdleForecast /\ IdleRisk /\ IdleLiquidity /\ IdleCorrelation

\* the response get_fred gets: no request is sent without a key
FredResponses == IF FRED_API_KEY THEN FredResponseChoices ELSE {NotSent}

\* us_df = get_fred("CPIAUCSL")
GetUsCpi ==
    /\ rep_pc = "us_df"
    /\ \E r \in FredResponses :
          /\ resp' = [resp EXCEPT !.us = r]
          /\ IF get_fred(FRED_API_KEY, r).raised
             THEN rep_pc' = "aborted" /\ us_df' = us_df
             ELSE rep_pc' = "fed_df" /\ us_df' = get_fred(FRED_API_KEY, r).df
    /\ UNCHANGED <<FRED_API_KEY, fed_df, ind_df, usd_inr, lines>>
    /\ UNCHANGED <<fcVars, riskVars, liqVars, corrVars>>

\* fed_df = get_fred("WALCL")
GetFed ==
    /\ rep_pc = "fed_df"
    /\ \E r \in FredResponses :
          /\ resp' = [resp EXCEPT !.fed = r]
          /\ IF get_fred(FRED_API_KEY, r).raised
             THEN rep_pc' = "aborted" /\ fed_df' = fed_df
             ELSE rep_pc' = "ind_df" /\ fed_df' = get_fred(FRED_API_KEY, r).df
    /\ UNCHANGED <<FRED_API_KEY, us_df, ind_df, usd_inr, lines>>
    /\ UNCHANGED <<fcVars, riskVars, liqVars, corrVars>>

\* ind_df = india_cpi()
GetIndiaCpi ==
    /\ rep_pc = "ind_df"
    /\ \E r \in IndiaResponseChoices :
          /\ resp' = [resp EXCEPT !.ind = r]
          /\ IF india_cpi(r).raised
             THEN rep_pc' = "aborted" /\ ind_df' = ind_df
             ELSE rep_pc' = "lines" /\ ind_df' = india_cpi(r).df
    /\ UNCHANGED <<FRED_API_KEY, us_df, fed_df, usd_inr, lines>>
    /\ UNCHANGED <<fcVars, riskVars, liqVars, corrVars>>

Last(df) == df[Len(df)]

Line(k, v) == [k |-> k, value |-> v]

\* df['value'].iloc[-1] when df is not empty, else the "not available" line
SeriesLine(df, k, na) ==
    IF df # <<>> THEN Line(k, Last(df).value) ELSE Line(na, NaN)

\* the policy note of lines 347-354
PolicyNote(ind, us) ==
    IF ind # <<>> /\ us # <<>>
    THEN IF Last(ind).value.n * Last(us).value.d > Last(us).value.n * Last(ind).value.d
         THEN <<Line("Note: India CPI > US CPI", NaN)>>
         ELSE <<Line("Note: India CPI <= US CPI", NaN)>>
    ELSE <<>>

\* lines 325-356, with usd_inr = fetch_usdinr() in their middle
ReportLines(us, ind, fed, rate) ==
    << Line("RBI Macro Dashboard Report", NaN),
       Line("Generated on", NaN),
       Line("", NaN),
       SeriesLine(us, "Latest US CPI (CPIAUCSL)", "US CPI: not available"),
       SeriesLine(ind, "Latest India CPI (World Bank)", "India CPI: not available"),
       SeriesLine(fed, "Latest Fed Balance Sheet (WALCL)", "Fed Balance Sheet: not available"),
       IF rate # None THEN Line("USD -> INR", rate) ELSE Line("USD -> INR: not available", NaN),
       Line("", NaN) >>
    \o PolicyNote(ind, us)

BuildReport ==
    /\ rep_pc = "lines"
    /\ \E r \in UsdInrResponseChoices :
          /\ resp' = [resp EXCEPT !.usd = r]
          /\ usd_inr' = fetch_usdinr(r)
          /\ lines' = ReportLines(us_df, ind_df, fed_df, fetch_usdinr(r))
    /\ rep_pc' = "done"
    /\ UNCHANGED <<FRED_API_KEY, us_df, fed_df, ind_df>>
    /\ UNCHANGED <<fcVars, riskVars, liqVars, corrVars>>

NextReport == GetUsCpi \/ GetFed \/ GetIndiaCpi \/ BuildReport

SpecReport == InitReport /\ [][NextReport]_vars

----------------------------------------------------------------------------
(* Claim about the fetchers and the report *)

FredFailed(r) == r.kind \in {"not sent", "timeout", "http error"} \/ r.observations = <<>>
IndiaFailed(r) == r.kind \in {"timeout", "http error"} \/ r.payload_len < 2 \/ r.data_is_null
UsdFailed(r) == r.kind \in {"timeout", "http error"} \/ ~r.has_rate

\* C9: whatever mix of the four fetches fails (no API key, network or HTTP
\* error, empty payload), each failing fetch returns an empty series (None
\* for the rate) and raises nothing, and the report is still built: it has
\* the latest value of every series that was fetched and the "not
\* available" line of every one that was not.
C9_FetchFailures ==
    /\ rep_pc # "aborted"
    /\ (resp.us # NotSent /\ FredFailed(resp.us)) => us_df = <<>>
    /\ (resp.fed # NotSent /\ FredFailed(resp.fed)) => fed_df = <<>>
    /\ (resp.ind # NotSent /\ IndiaFailed(resp.ind)) => ind_df = <<>>
    /\ ~FRED_API_KEY => (us_df = <<>> /\ fed_df = <<>>)
    /\ rep_pc = "done" =>
        /\ UsdFailed(resp.usd) => usd_inr = None
        /\ Len(lines) >= 8
        /\ lines[4] = IF us_df = <<>> THEN Line("US CPI: not available", NaN)
                       ELSE Line("Latest US CPI (CPIAUCSL)", Last(us_df).value)
        /\ lines[5] = IF ind_df = <<>> THEN Line("India CPI: not available", NaN)
                       ELSE Line("Latest India CPI (World Bank)", Last(ind_df).value)
        /\ lines[6] = IF fed_df = <<>> THEN Line("Fed Balance Sheet: not available", NaN)
                       ELSE Line("Latest Fed Balance Sheet (WALCL)", Last(fed_df).value)
        /\ lines[7] = IF usd_inr = None THEN Line("USD -> INR: not available", NaN)
                       ELSE Line("USD -> INR", usd_inr)

\* India CPI and the rate fail, the two FRED series are fetched
C9_Witness ==
    /\ rep_pc = "done"
    /\ resp.ind.kind = "timeout" /\ resp.usd.kind = "http error"
    /\ us_df # <<>> /\ fed_df # <<>> /\ ind_df = <<>>
    /\ lines[4].k = "Latest US CPI (CPIAUCSL)" /\ lines[5].k = "India CPI: not available"
    /\ lines[6].value = Num(10)

====
